---------------------------- MODULE Spec2Model ----------------------------
(***************************************************************************)
(* A model of LazyCommits ("Deep", the auto git pusher):                   *)
(*   src/src/gitLogic.js  checkGitStatus, processFiles, pushChanges,       *)
(*                        waitForThreshold, getBranches, checkoutBranch    *)
(*   src/src/index.js     main                                             *)
(*                                                                         *)
(* The program is one asynchronous flow.  pc names the await the flow is   *)
(* suspended at (the external call in flight), by source line: "p53" is    *)
(* the git.push() of gitLogic.js line 53.  Every action is the return of   *)
(* that call, with an outcome chosen by the environment, followed by the   *)
(* code that runs up to the next await.  The only other activity is the    *)
(* setInterval callback of waitForThreshold, counted in pending.           *)
(***************************************************************************)
EXTENDS Integers, Sequences, FiniteSets, TLC

(***************************************************************************)
(* Bounds of the model.                                                    *)
(***************************************************************************)
MaxFiles == 7         \* longest changed-file list a status read returns
MaxBatch == 3         \* longest list handed to a stand-alone processFiles
MaxLimit == 3         \* largest limit handed to a stand-alone processFiles
MaxThreshold == 3     \* largest threshold of a stand-alone waitForThreshold
MaxPolls == 3         \* timer firings of one waitForThreshold call
MaxPending == 2       \* poll callbacks outstanding at the same time

(***************************************************************************)
(* Program constants.                                                      *)
(***************************************************************************)
DefaultLimit == 5     \* processFiles(files, limit = 5), and main's 5
Threshold == 5        \* main: files.length >= 5, waitForThreshold(5)

Null == "null"        \* JavaScript null / undefined, where a string is expected
NullList == <<Null>>  \* JavaScript null, where a list is expected
NoError == <<>>       \* no error caught

Min(a, b) == IF a < b THEN a ELSE b
Max(a, b) == IF a > b THEN a ELSE b

(***************************************************************************)
(* Error texts.  A text is the sequence of its words, and                  *)
(* String.prototype.includes is containment of a word sequence, so that    *)
(* the classification of the code is computed and not assumed.             *)
(***************************************************************************)
Includes(message, pattern) ==
    \E k \in 1..(Len(message) - Len(pattern) + 1) :
        SubSeq(message, k, k + Len(pattern) - 1) = pattern

PatNoDestination == <<"No", "configured", "push", "destination">>
PatNoUpstream == <<"no", "upstream", "branch">>
PatFetchFirst == <<"fetch", "first">>
PatRejected == <<"rejected">>
PatDivergent == <<"divergent", "branches">>
PatNonFastForward == <<"non-fast-forward">>

MsgNoDestination == <<"fatal:", "No", "configured", "push", "destination">>
MsgNoDestinationLower == <<"fatal:", "no", "configured", "push", "destination">>
MsgNoUpstream == <<"fatal:", "branch", "has", "no", "upstream", "branch">>
MsgNoUpstreamRejected == <<"rejected", "has", "no", "upstream", "branch">>
MsgRejected == <<"!", "rejected">>
MsgFetchFirst == <<"hint:", "fetch", "first">>
MsgDivergent == <<"fatal:", "divergent", "branches">>
MsgNonFastForward == <<"hint:", "non-fast-forward">>
MsgOther == <<"fatal:", "unable", "to", "access">>
MsgRemoteExists == <<"error:", "remote", "origin", "already", "exists">>
MsgConflict == <<"error:", "could", "not", "apply">>

PushErrors ==
    {MsgNoDestination, MsgNoDestinationLower, MsgNoUpstream, MsgNoUpstreamRejected,
     MsgRejected, MsgFetchFirst, MsgDivergent, MsgNonFastForward, MsgOther}
RevparseErrors == {MsgOther, MsgRejected}
PullErrors == {MsgConflict}
RemoteErrors == {MsgOther}
AddRemoteErrors == {MsgRemoteExists, MsgOther}
PromptErrors == {MsgOther}

\* gitLogic.js line 57
IsNoUpstream(message) ==
    Includes(message, PatNoDestination) \/ Includes(message, PatNoUpstream)

\* Line 141 without its "divergent branches".
IsRemoteAheadNoDivergent(message) ==
    \/ Includes(message, PatFetchFirst)
    \/ Includes(message, PatRejected)

\* gitLogic.js line 141
IsRemoteAhead(message) ==
    \/ Includes(message, PatFetchFirst)
    \/ Includes(message, PatRejected)
    \/ Includes(message, PatDivergent)

\* Line 113 without its "rejected".
IsDivergedNoRejected(message) ==
    \/ Includes(message, PatFetchFirst)
    \/ Includes(message, PatDivergent)
    \/ Includes(message, PatNonFastForward)

\* Line 113 without its "non-fast-forward", as line 141 has it.
IsDivergedNoNonFastForward(message) ==
    \/ Includes(message, PatFetchFirst)
    \/ Includes(message, PatRejected)
    \/ Includes(message, PatDivergent)

\* gitLogic.js line 113
IsDiverged(message) ==
    \/ Includes(message, PatFetchFirst)
    \/ Includes(message, PatRejected)
    \/ Includes(message, PatDivergent)
    \/ Includes(message, PatNonFastForward)

Branches == {"main", "dev"}
Urls == {"", "git@host:repo"}
NoBranches == [all |-> {}, current |-> Null]     \* getBranches returned null

\* Changed paths, and the lists a status read reports: the first n paths in
\* either order (the order is whatever the VCS reports).
PathName == <<"f1", "f2", "f3", "f4", "f5", "f6", "f7", "f8">>
Paths(n) == {PathName[k] : k \in 1..n}
Ascending(n) == [k \in 1..n |-> PathName[k]]
Descending(n) == [k \in 1..n |-> PathName[n + 1 - k]]
StatusLists == {Ascending(n) : n \in 0..MaxFiles} \cup {Descending(n) : n \in 0..MaxFiles}
Injective(q) == \A a, b \in 1..Len(q) : q[a] = q[b] => a = b
SeqsUpTo(S, n) == UNION {[1..k -> S] : k \in 0..n}

VARIABLES
    pc,             \* the await the flow is suspended at
    ret,            \* where the running function returns to
    calls,          \* the external calls of the running function, in order
    origin,         \* the repository has a remote named "origin"
    curBranch,      \* the branch the working directory is on
    error,          \* pushChanges: the caught error's message
    hasOrigin,      \* pushChanges: hasOrigin
    remoteUrl,      \* pushChanges: remoteUrl
    branch,         \* pushChanges: branch
    spinner,        \* pushChanges: spinner
    setupSpinner,   \* pushChanges: setupSpinner
    files,          \* the changed-file list in hand (main, processFiles)
    limit,          \* processFiles: limit
    filesToProcess, \* processFiles: filesToProcess
    idx,            \* processFiles: position of the for-of loop
    console,        \* processFiles: what console.log last printed
    fileSpinner,    \* processFiles: the per-file spinners' outcomes, in order
    threshold,      \* waitForThreshold: threshold
    interval,       \* waitForThreshold: the interval timer is set
    pending,        \* waitForThreshold: poll callbacks awaiting checkGitStatus
    fired,          \* waitForThreshold: timer firings so far
    resolved,       \* waitForThreshold: the promise is resolved
    result,         \* waitForThreshold: the value it resolved with
    pollLog,        \* waitForThreshold: the files of each completed poll
    resolvedAt,     \* waitForThreshold: the poll that resolved the promise
    stale,          \* poll callbacks outstanding from promises already resolved
    branches,       \* main: branches
    branchName      \* checkoutBranch: branchName

envVars == <<origin, curBranch>>
pushVars ==
    <<error, hasOrigin, remoteUrl, branch, spinner, setupSpinner>>
batchVars == <<limit, filesToProcess, idx, console, fileSpinner>>
waitVars ==
    <<threshold, interval, pending, fired, resolved, result, pollLog, resolvedAt>>
mainVars == <<stale, branches, branchName>>
vars ==
    <<pc, ret, calls, files, envVars, pushVars, batchVars, waitVars, mainVars>>

Ok == [ok |-> TRUE, msg |-> <<>>]
Fail(m) == [ok |-> FALSE, msg |-> m]
Outcomes(errors) == {Ok} \cup {Fail(m) : m \in errors}

\* One external call in calls: where it was issued (the pc), what it was, its
\* argument, and how it ended.
Call(op, arg, r) == [at |-> pc, op |-> op, arg |-> arg, ok |-> r.ok, msg |-> r.msg]
Log(op, arg, r) == Append(calls, Call(op, arg, r))

Spin(state, text) == [state |-> state, text |-> text]
NoSpinner == Spin("none", "")

\* Values of the variables no function is using.
IdleBatch ==
    /\ limit = DefaultLimit
    /\ filesToProcess = <<>>
    /\ idx = 0
    /\ console = ""
    /\ fileSpinner = <<>>
IdleWait ==
    /\ threshold = Threshold
    /\ interval = FALSE
    /\ pending = 0
    /\ fired = 0
    /\ resolved = FALSE
    /\ result = NullList
    /\ pollLog = <<>>
    /\ resolvedAt = 0
IdleMain ==
    /\ stale = 0
    /\ branches = NoBranches
    /\ branchName = Null
IdlePush ==
    /\ error = NoError
    /\ hasOrigin = FALSE
    /\ remoteUrl = Null
    /\ branch = Null
    /\ spinner = NoSpinner
    /\ setupSpinner = NoSpinner

\* The same, as the assignment that forgets a finished call.
ResetBatch ==
    /\ limit' = DefaultLimit
    /\ filesToProcess' = <<>>
    /\ idx' = 0
    /\ console' = ""
    /\ fileSpinner' = <<>>
ResetWait ==
    /\ threshold' = Threshold
    /\ interval' = FALSE
    /\ pending' = 0
    /\ fired' = 0
    /\ resolved' = FALSE
    /\ result' = NullList
    /\ pollLog' = <<>>
    /\ resolvedAt' = 0
ResetPush ==
    /\ error' = NoError
    /\ hasOrigin' = FALSE
    /\ remoteUrl' = Null
    /\ branch' = Null
    /\ spinner' = NoSpinner
    /\ setupSpinner' = NoSpinner

\* A test that takes the empty string for a value.
TruthyIfNotNull(s) == s # Null

\* JavaScript truthiness of a string or undefined
Truthy(s) == s # Null /\ s # ""

(***************************************************************************)
(* pushChanges, gitLogic.js lines 50-156.                                  *)
(***************************************************************************)
notPush == <<files, batchVars, waitVars, mainVars>>

\* The call: line 51 starts the spinner and line 53 issues the push.
pushChanges(r) ==
    /\ pc' = "p53"
    /\ ret' = r
    /\ calls' = <<>>
    /\ error' = NoError
    /\ hasOrigin' = FALSE
    /\ remoteUrl' = Null
    /\ branch' = Null
    /\ spinner' = Spin("spinning", "Pushing changes...")
    /\ setupSpinner' = NoSpinner

\* A rejection that no try block of pushChanges catches.
Escapes == pc' = "rejected"

\* The guard without hasOrigin: if (remoteUrl).
SyncOnlyWithUrl(origin_, url) ==
    IF Truthy(url)
    THEN /\ setupSpinner' = Spin("spinning", "Syncing with remote...")
         /\ branch' = Null
         /\ pc' = "p107"
    ELSE /\ pc' = ret
         /\ UNCHANGED <<setupSpinner, branch>>

\* The guard without remoteUrl: if (hasOrigin).
SyncOnlyWithOrigin(origin_, url) ==
    IF origin_
    THEN /\ setupSpinner' = Spin("spinning", "Syncing with remote...")
         /\ branch' = Null
         /\ pc' = "p107"
    ELSE /\ pc' = ret
         /\ UNCHANGED <<setupSpinner, branch>>

\* Lines 102-107: the guard of the sync phase, and its first call.
SyncWithRemote(origin_, url) ==
    IF origin_ \/ Truthy(url)
    THEN /\ setupSpinner' = Spin("spinning", "Syncing with remote...")
         /\ branch' = Null
         /\ pc' = "p107"
    ELSE /\ pc' = ret
         /\ UNCHANGED <<setupSpinner, branch>>

\* Lines 111-137 with the sync phase tried again instead of line 117.
SyncCatchRetries(message) ==
    IF IsDiverged(message)
    THEN /\ setupSpinner' = Spin("spinning", "Syncing with remote...")
         /\ pc' = "p107"
    ELSE /\ setupSpinner' = Spin("fail", "Failed to push")
         /\ pc' = ret

\* Lines 111-137: the catch of the sync phase's first try.
SyncCatch(message) ==
    IF IsDiverged(message)
    THEN /\ setupSpinner' = Spin("spinning", "Remote contains changes. Reconciling...")
         /\ pc' = IF branch' = Null THEN "p117" ELSE "p121"
    ELSE /\ setupSpinner' = Spin("fail", "Failed to push")
         /\ pc' = ret

\* Lines 53-57, 141-154: the plain push returns.
AttemptPush ==
    /\ pc = "p53"
    /\ \E r \in Outcomes(PushErrors) :
        /\ calls' = Log("push", "", r)
        /\ IF r.ok
           THEN /\ spinner' = Spin("succeed", "Changes pushed to remote.")
                /\ pc' = ret
                /\ UNCHANGED error
           ELSE /\ error' = r.msg
                /\ IF IsNoUpstream(r.msg)
                   THEN /\ spinner' = Spin("fail", "No remote/upstream configured.")
                        /\ pc' = "p61"
                   ELSE IF IsRemoteAhead(r.msg)
                   THEN /\ spinner' = Spin("spinning", "Remote is ahead. Pulling changes...")
                        /\ pc' = "p145"
                   ELSE /\ spinner' = Spin("fail", "Failed to push changes")
                        /\ pc' = ret
    /\ UNCHANGED <<ret, envVars, hasOrigin, remoteUrl, branch, setupSpinner, notPush>>

\* Lines 61-70, 82: getRemotes returns.
NoUpstream ==
    /\ pc = "p61"
    /\ \E r \in Outcomes(RemoteErrors) :
        /\ calls' = Log("getRemotes", "", r)
        /\ IF r.ok
           THEN /\ hasOrigin' = origin
                /\ IF origin
                   THEN /\ spinner' = Spin(spinner.state, "Remote origin found. Attempting to link upstream...")
                        /\ pc' = "p70"
                   ELSE /\ pc' = "p82"
                        /\ UNCHANGED spinner
           ELSE /\ Escapes
                /\ UNCHANGED <<hasOrigin, spinner>>
    /\ UNCHANGED <<ret, envVars, error, remoteUrl, branch, setupSpinner, notPush>>

\* Lines 70, 74-78, 103-107: the branch name of the link attempt returns.
LinkRevparse ==
    /\ pc = "p70"
    /\ \E r \in Outcomes(RevparseErrors) :
        /\ calls' = Log("revparse", "", r)
        /\ IF r.ok
           THEN /\ branch' = curBranch
                /\ pc' = "p71"
                /\ UNCHANGED <<error, spinner, setupSpinner>>
           ELSE /\ error' = r.msg
                /\ spinner' = Spin("fail", "Failed to link upstream")
                /\ SyncWithRemote(hasOrigin, remoteUrl)
    /\ UNCHANGED <<ret, envVars, hasOrigin, remoteUrl, notPush>>

\* Lines 71-78, 103-107: the push -u of the link attempt returns.
LinkUpstream ==
    /\ pc = "p71"
    /\ \E r \in Outcomes(PushErrors) :
        /\ calls' = Log("pushU", branch, r)
        /\ IF r.ok
           THEN /\ spinner' = Spin("succeed", "Upstream linked and changes pushed!")
                /\ pc' = ret
                /\ UNCHANGED <<error, branch, setupSpinner>>
           ELSE /\ error' = r.msg
                /\ spinner' = Spin("fail", "Failed to link upstream")
                /\ SyncWithRemote(hasOrigin, remoteUrl)
    /\ UNCHANGED <<ret, envVars, hasOrigin, remoteUrl, notPush>>

\* Lines 82-99: the operator answers the remote-URL prompt.
PromptForRemote ==
    /\ pc = "p82"
    /\ \/ \E url \in Urls :
            /\ calls' = Log("prompt", url, Ok)
            /\ remoteUrl' = url
            /\ pc' = IF Truthy(url) THEN "p93" ELSE ret
       \/ \E m \in PromptErrors :
            /\ calls' = Log("prompt", "", Fail(m))
            /\ Escapes
            /\ UNCHANGED remoteUrl
    /\ UNCHANGED <<ret, envVars, error, hasOrigin, branch, spinner, setupSpinner, notPush>>

\* Lines 93-96, 103-107: addRemote returns.
AddRemote ==
    /\ pc = "p93"
    /\ \E r \in Outcomes(AddRemoteErrors) :
        /\ calls' = Log("addRemote", remoteUrl, r)
        /\ origin' = (origin \/ r.ok \/ r.msg = MsgRemoteExists)
        /\ SyncWithRemote(hasOrigin, remoteUrl)
    /\ UNCHANGED <<ret, curBranch, error, hasOrigin, remoteUrl, spinner, notPush>>

\* Lines 107-109, 111-137: the branch name of the sync phase returns.
SyncRevparse ==
    /\ pc = "p107"
    /\ \E r \in Outcomes(RevparseErrors) :
        /\ calls' = Log("revparse", "", r)
        /\ IF r.ok
           THEN /\ branch' = curBranch
                /\ pc' = "p109"
                /\ UNCHANGED setupSpinner
           ELSE /\ UNCHANGED branch
                /\ SyncCatch(r.msg)
    /\ UNCHANGED <<ret, envVars, error, hasOrigin, remoteUrl, spinner, notPush>>

\* Lines 109-137: the push -u of the sync phase returns.
SyncPush ==
    /\ pc = "p109"
    /\ \E r \in Outcomes(PushErrors) :
        /\ calls' = Log("pushU", branch, r)
        /\ UNCHANGED branch
        /\ IF r.ok
           THEN /\ setupSpinner' = Spin("succeed", "Remote configured and changes pushed!")
                /\ pc' = ret
           ELSE SyncCatch(r.msg)
    /\ UNCHANGED <<ret, envVars, error, hasOrigin, remoteUrl, spinner, notPush>>

\* Lines 117-121: the branch name read again, outside every try.
ReconcileRevparse ==
    /\ pc = "p117"
    /\ \E r \in Outcomes(RevparseErrors) :
        /\ calls' = Log("revparse", "", r)
        /\ IF r.ok
           THEN /\ branch' = curBranch
                /\ pc' = "p121"
           ELSE /\ Escapes
                /\ UNCHANGED branch
    /\ UNCHANGED <<ret, envVars, error, hasOrigin, remoteUrl, spinner, setupSpinner, notPush>>

\* Lines 121-128: the pull with unrelated histories allowed returns.
ReconcilePull ==
    /\ pc = "p121"
    /\ \E r \in Outcomes(PullErrors) :
        /\ calls' = Log("pullUnrelated", branch, r)
        /\ IF r.ok
           THEN /\ pc' = "p122"
                /\ UNCHANGED setupSpinner
           ELSE /\ setupSpinner' = Spin("spinning", "Trying rebase...")
                /\ pc' = "p128"
    /\ UNCHANGED <<ret, envVars, error, hasOrigin, remoteUrl, branch, spinner, notPush>>

\* Lines 122-128: the push -u after the pull returns.
ReconcilePush ==
    /\ pc = "p122"
    /\ \E r \in Outcomes(PushErrors) :
        /\ calls' = Log("pushU", branch, r)
        /\ IF r.ok
           THEN /\ setupSpinner' = Spin("succeed", "Reconciled and pushed!")
                /\ pc' = ret
           ELSE /\ setupSpinner' = Spin("spinning", "Trying rebase...")
                /\ pc' = "p128"
    /\ UNCHANGED <<ret, envVars, error, hasOrigin, remoteUrl, branch, spinner, notPush>>

\* Lines 128-133: the pull --rebase of the sync phase returns.
RebasePull ==
    /\ pc = "p128"
    /\ \E r \in Outcomes(PullErrors) :
        /\ calls' = Log("pullRebase", branch, r)
        /\ IF r.ok
           THEN /\ pc' = "p129"
                /\ UNCHANGED setupSpinner
           ELSE /\ setupSpinner' = Spin("fail", "Critical failure syncing with remote")
                /\ pc' = ret
    /\ UNCHANGED <<ret, envVars, error, hasOrigin, remoteUrl, branch, spinner, notPush>>

\* Lines 129-133: the push -u after the rebase returns.
RebasePush ==
    /\ pc = "p129"
    /\ \E r \in Outcomes(PushErrors) :
        /\ calls' = Log("pushU", branch, r)
        /\ setupSpinner' =
              IF r.ok THEN Spin("succeed", "Rebased and pushed!")
              ELSE Spin("fail", "Critical failure syncing with remote")
        /\ pc' = ret
    /\ UNCHANGED <<ret, envVars, error, hasOrigin, remoteUrl, branch, spinner, notPush>>

AutoSyncFailed == Spin("fail", "Failed to auto-sync. Please pull manually to resolve conflicts.")

\* Lines 145-151: the branch name of the remote-ahead case returns.
AheadRevparse ==
    /\ pc = "p145"
    /\ \E r \in Outcomes(RevparseErrors) :
        /\ calls' = Log("revparse", "", r)
        /\ IF r.ok
           THEN /\ branch' = curBranch
                /\ pc' = "p146"
                /\ UNCHANGED spinner
           ELSE /\ spinner' = AutoSyncFailed
                /\ pc' = ret
                /\ UNCHANGED branch
    /\ UNCHANGED <<ret, envVars, error, hasOrigin, remoteUrl, setupSpinner, notPush>>

\* Lines 146-151 with a failed pull handed on to the pull of line 121.
AheadPullReconciles ==
    /\ pc = "p146"
    /\ \E r \in Outcomes(PullErrors) :
        /\ calls' = Log("pullRebase", branch, r)
        /\ pc' = IF r.ok THEN "p147" ELSE "p121"
    /\ UNCHANGED <<ret, envVars, error, hasOrigin, remoteUrl, branch, spinner, setupSpinner, notPush>>

\* Lines 146-151: the pull --rebase of the remote-ahead case returns.
AheadPull ==
    /\ pc = "p146"
    /\ \E r \in Outcomes(PullErrors) :
        /\ calls' = Log("pullRebase", branch, r)
        /\ IF r.ok
           THEN /\ pc' = "p147"
                /\ UNCHANGED spinner
           ELSE /\ spinner' = AutoSyncFailed
                /\ pc' = ret
    /\ UNCHANGED <<ret, envVars, error, hasOrigin, remoteUrl, branch, setupSpinner, notPush>>

\* Lines 147-151: the plain push after the rebase returns.
AheadPush ==
    /\ pc = "p147"
    /\ \E r \in Outcomes(PushErrors) :
        /\ calls' = Log("push", "", r)
        /\ spinner' =
              IF r.ok THEN Spin("succeed", "Pulled remote changes and pushed.")
              ELSE AutoSyncFailed
        /\ pc' = ret
    /\ UNCHANGED <<ret, envVars, error, hasOrigin, remoteUrl, branch, setupSpinner, notPush>>

PushStep ==
    \/ AttemptPush
    \/ NoUpstream
    \/ LinkRevparse
    \/ LinkUpstream
    \/ PromptForRemote
    \/ AddRemote
    \/ SyncRevparse
    \/ SyncPush
    \/ ReconcileRevparse
    \/ ReconcilePull
    \/ ReconcilePush
    \/ RebasePull
    \/ RebasePush
    \/ AheadRevparse
    \/ AheadPull
    \/ AheadPush

(***************************************************************************)
(* SpecPush: one call of pushChanges, in any repository.                   *)
(***************************************************************************)
InitPush ==
    /\ pc = "p53"
    /\ ret = "exit"
    /\ calls = <<>>
    /\ origin \in BOOLEAN
    /\ curBranch \in Branches
    /\ error = NoError
    /\ hasOrigin = FALSE
    /\ remoteUrl = Null
    /\ branch = Null
    /\ spinner = Spin("spinning", "Pushing changes...")
    /\ setupSpinner = NoSpinner
    /\ files = <<>>
    /\ IdleBatch
    /\ IdleWait
    /\ IdleMain

SpecPush == InitPush /\ [][PushStep]_vars

\* Every external call returns: the await in flight is resumed.
SpecPushFair == SpecPush /\ WF_vars(PushStep)

(***************************************************************************)
(* processFiles, gitLogic.js lines 28-48.                                  *)
(***************************************************************************)
notBatch == <<envVars, pushVars, waitVars, mainVars>>
StageErrors == {MsgOther}
CommitErrors == {MsgOther}

\* Line 29 without its !files.
NoFilesLengthOnly(list) == list # NullList /\ Len(list) = 0

\* Line 29: !files || files.length === 0
NoFiles(list) == list = NullList \/ Len(list) = 0

\* slice(0, end + 1): one file too many.
SliceOneMore(list, end) ==
    SubSeq(list, 1, IF end < 0 THEN Max(Len(list) + end, 0) ELSE Min(end + 1, Len(list)))

\* Array.prototype.slice(0, end)
Slice(list, end) ==
    SubSeq(list, 1, IF end < 0 THEN Max(Len(list) + end, 0) ELSE Min(end, Len(list)))

\* Line 34 without the limit.
SelectedAll(list, lim) == list

\* Line 34: limit ? files.slice(0, limit) : files
Selected(list, lim) == IF lim # 0 THEN Slice(list, lim) ELSE list

\* Lines 37-38, 47: the for-of loop takes the next file, or the function returns.
NextFile ==
    IF idx < Len(filesToProcess)
    THEN idx' = idx + 1 /\ pc' = "a40"
    ELSE idx' = idx /\ pc' = ret

\* A catch that gives the batch up.
CatchFileAborts(path) ==
    /\ fileSpinner' = Append(fileSpinner, <<path, "fail">>)
    /\ idx' = idx
    /\ pc' = ret

\* Lines 44-47: the catch of one file's try, and on to the next file.
CatchFile(path) ==
    /\ fileSpinner' = Append(fileSpinner, <<path, "fail">>)
    /\ NextFile

\* Lines 28-40: the function is entered with files and limit.
processFiles ==
    /\ pc = "f28"
    /\ calls' = <<>>
    /\ fileSpinner' = <<>>
    /\ IF NoFiles(files)
       THEN /\ console' = "No files to process."
            /\ pc' = ret
            /\ UNCHANGED <<filesToProcess, idx>>
       ELSE IF files = NullList
       THEN /\ pc' = "rejected"        \* TypeError: slice of null
            /\ UNCHANGED <<console, filesToProcess, idx>>
       ELSE /\ filesToProcess' = Selected(files, limit)
            /\ console' = "Processing files..."
            /\ IF Len(filesToProcess') > 0
               THEN idx' = 1 /\ pc' = "a40"
               ELSE idx' = 0 /\ pc' = ret
    /\ UNCHANGED <<ret, files, limit, notBatch>>

\* Lines 40-47: git.add of the current file returns.
Stage ==
    /\ pc = "a40"
    /\ \E r \in Outcomes(StageErrors) :
        /\ calls' = Log("add", filesToProcess[idx], r)
        /\ IF r.ok
           THEN /\ pc' = "a42"
                /\ UNCHANGED <<idx, fileSpinner>>
           ELSE CatchFile(filesToProcess[idx])
    /\ UNCHANGED <<ret, files, limit, filesToProcess, console, notBatch>>

\* Lines 42-47: git.commit of the current file returns.
Commit ==
    /\ pc = "a42"
    /\ \E r \in Outcomes(CommitErrors) :
        /\ calls' = Log("commit", filesToProcess[idx], r)
        /\ IF r.ok
           THEN /\ fileSpinner' = Append(fileSpinner, <<filesToProcess[idx], "succeed">>)
                /\ NextFile
           ELSE CatchFile(filesToProcess[idx])
    /\ UNCHANGED <<ret, files, limit, filesToProcess, console, notBatch>>

BatchStep == processFiles \/ Stage \/ Commit

(***************************************************************************)
(* SpecBatch: one call of processFiles, with any list and any limit.       *)
(***************************************************************************)
BatchInputs ==
    {NullList} \cup {q \in SeqsUpTo(Paths(MaxBatch), MaxBatch) : Injective(q)}
BatchLimits == (-1..MaxLimit) \cup {DefaultLimit}

InitBatch ==
    /\ pc = "f28"
    /\ ret = "exit"
    /\ calls = <<>>
    /\ origin = TRUE
    /\ curBranch = "main"
    /\ IdlePush
    /\ files \in BatchInputs
    /\ limit \in BatchLimits
    /\ filesToProcess = <<>>
    /\ idx = 0
    /\ console = ""
    /\ fileSpinner = <<>>
    /\ IdleWait
    /\ IdleMain

SpecBatch == InitBatch /\ [][BatchStep]_vars

(***************************************************************************)
(* checkGitStatus, gitLogic.js lines 8-22, and waitForThreshold, lines     *)
(* 161-178.                                                                *)
(***************************************************************************)
\* What the VCS answers to one status read: not a repository, an error, or
\* the changed files.
StatusOutcomes ==
    {[kind |-> "notRepo", files |-> <<>>], [kind |-> "error", files |-> <<>>]}
        \cup {[kind |-> "files", files |-> q] : q \in StatusLists}

\* Lines 9-21
checkGitStatus(o) == IF o.kind = "files" THEN o.files ELSE NullList

\* Line 167: files ? files.length : 0
Count(list) == IF list # NullList THEN Len(list) ELSE 0

\* Line 171 with > for >=.
ReachedStrictly(count, t) == count > t

\* Line 171
Reached(count, t) == count >= t

\* Lines 162-177: the spinner starts, the timer is set, the promise returned.
waitForThreshold(t, r) ==
    /\ pc' = "w164"
    /\ ret' = r
    /\ threshold' = t
    /\ interval' = TRUE
    /\ stale' = stale + pending
    /\ pending' = 0
    /\ fired' = 0
    /\ resolved' = FALSE
    /\ result' = NullList
    /\ pollLog' = <<>>
    /\ resolvedAt' = 0

\* Lines 165-166: the timer fires, whether or not an earlier callback has
\* finished, and the callback starts its status read.
TimerFires ==
    /\ interval
    /\ fired < MaxPolls
    /\ pending + stale < MaxPending
    /\ fired' = fired + 1
    /\ pending' = pending + 1
    /\ UNCHANGED <<pc, ret, calls, files, envVars, pushVars, batchVars, threshold,
                   interval, resolved, result, pollLog, resolvedAt, mainVars>>

\* Lines 166-175: the status read of a callback returns.  resolve() settles
\* the promise and the awaiting caller resumes before any other callback.
PollReturns ==
    /\ pc = "w164"
    /\ pending > 0
    /\ \E o \in StatusOutcomes :
        LET list == checkGitStatus(o) IN
        /\ pollLog' = Append(pollLog, list)
        /\ IF Reached(Count(list), threshold)
           THEN /\ interval' = FALSE
                /\ resolved' = TRUE
                /\ result' = list
                /\ resolvedAt' = Len(pollLog')
                /\ pc' = ret
                /\ stale' = stale + pending - 1
                /\ pending' = 0
           ELSE /\ pending' = pending - 1
                /\ UNCHANGED <<pc, interval, resolved, result, resolvedAt, stale>>
    /\ UNCHANGED <<ret, calls, files, envVars, pushVars, batchVars, threshold, fired,
                   branches, branchName>>

\* Lines 166-175 in a callback whose promise is already resolved: clearInterval
\* and resolve change nothing any more.
StalePollReturns ==
    /\ stale > 0
    /\ pc # "crashed"
    /\ stale' = stale - 1
    /\ UNCHANGED <<pc, ret, calls, files, envVars, pushVars, batchVars, waitVars,
                   branches, branchName>>

WaitStep == TimerFires \/ PollReturns \/ StalePollReturns

(***************************************************************************)
(* SpecWait: one call of waitForThreshold, with any threshold.             *)
(***************************************************************************)
InitWait ==
    /\ pc = "w164"
    /\ ret = "exit"
    /\ calls = <<>>
    /\ origin = TRUE
    /\ curBranch = "main"
    /\ IdlePush
    /\ files = <<>>
    /\ IdleBatch
    /\ threshold \in (0..MaxThreshold) \cup {Threshold}
    /\ interval = TRUE
    /\ pending = 0
    /\ fired = 0
    /\ resolved = FALSE
    /\ result = NullList
    /\ pollLog = <<>>
    /\ resolvedAt = 0
    /\ IdleMain

SpecWait == InitWait /\ [][WaitStep]_vars

(***************************************************************************)
(* getBranches and checkoutBranch, gitLogic.js lines 180-199, and main,    *)
(* index.js lines 7-66.                                                    *)
(***************************************************************************)
BranchErrors == {MsgOther}
CheckoutErrors == {MsgOther}

\* gitLogic.js lines 180-188
getBranches(r) == IF r.ok THEN [all |-> Branches, current |-> curBranch] ELSE NoBranches

\* index.js lines 19-21, 38-39: getBranches returns.
BranchSelection ==
    /\ pc = "m19"
    /\ \E r \in Outcomes(BranchErrors) :
        /\ calls' = Log("branchLocal", "", r)
        /\ branches' = getBranches(r)
        /\ pc' = IF branches' # NoBranches THEN "m21" ELSE "m39"
    /\ UNCHANGED <<ret, files, envVars, pushVars, batchVars, waitVars, stale,
                   branchName>>

\* A test that takes every choice for a change of branch.
Always(choice, current) == TRUE

\* index.js line 31
NeedsCheckout(choice, current) == choice # current

\* index.js lines 21-39, gitLogic.js lines 190-193: the operator picks a branch.
SelectBranch ==
    /\ pc = "m21"
    /\ \/ \E choice \in branches.all :
            /\ calls' = Log("prompt", choice, Ok)
            /\ IF NeedsCheckout(choice, branches.current)
               THEN pc' = "k193" /\ branchName' = choice
               ELSE pc' = "m39" /\ UNCHANGED branchName
       \/ \E m \in PromptErrors :
            /\ calls' = Log("prompt", "", Fail(m))
            /\ pc' = "rejected"
            /\ UNCHANGED branchName
    /\ UNCHANGED <<ret, files, envVars, pushVars, batchVars, waitVars, stale, branches>>

\* gitLogic.js lines 193-198: git.checkout returns.
checkoutBranch ==
    /\ pc = "k193"
    /\ \E r \in Outcomes(CheckoutErrors) :
        /\ calls' = Log("checkout", branchName, r)
        /\ curBranch' = IF r.ok THEN branchName ELSE curBranch
    /\ pc' = "m39"
    /\ UNCHANGED <<ret, files, origin, pushVars, batchVars, waitVars, mainVars>>

\* A test that never takes a status read for a failed one.
NeverFailed(list) == FALSE

\* index.js line 42: if (files === null)
ReadFailed(list) == list = NullList

\* index.js line 48 with 4 for 5.
OneShortOfThreshold(list) == Len(list) >= Threshold - 1

\* index.js line 48: files.length >= 5
AtThreshold(list) == Len(list) >= Threshold

\* index.js lines 39-59: the status read of the loop returns.  Once the loop
\* is entered nothing reads branches or branchName again.
ReadStatus ==
    /\ pc = "m39"
    /\ calls' = <<>>
    /\ branches' = NoBranches
    /\ branchName' = Null
    /\ \E o \in StatusOutcomes :
        /\ files' = checkGitStatus(o)
        /\ IF ReadFailed(files')
           THEN /\ pc' = "m44"
                /\ UNCHANGED <<ret, limit, waitVars, stale>>
           ELSE IF AtThreshold(files')
           THEN /\ pc' = "f28"
                /\ ret' = "m50"
                /\ limit' = DefaultLimit
                /\ UNCHANGED <<waitVars, stale>>
           ELSE /\ waitForThreshold(Threshold, "m59")
                /\ UNCHANGED limit
    /\ UNCHANGED <<envVars, pushVars, filesToProcess, idx, console, fileSpinner>>

\* index.js lines 44-45: the 5 s retry timer fires.
RetryTimer ==
    /\ pc = "m44"
    /\ pc' = "m39"
    /\ UNCHANGED <<ret, calls, files, envVars, pushVars, batchVars, waitVars, mainVars>>

\* index.js lines 56-59: the promise of waitForThreshold has resolved.
ThresholdReached ==
    /\ pc = "m59"
    /\ files' = result
    /\ pc' = "f28"
    /\ ret' = "m60"
    /\ limit' = DefaultLimit
    /\ ResetWait
    /\ UNCHANGED <<calls, envVars, pushVars, filesToProcess, idx, console, fileSpinner,
                   mainVars>>

\* index.js lines 50, 60: processFiles has returned.  Nothing reads files
\* again before the next status read replaces it.
CallPush ==
    /\ pc \in {"m50", "m60"}
    /\ pushChanges(IF pc = "m50" THEN "m51" ELSE "m61")
    /\ files' = <<>>
    /\ ResetBatch
    /\ UNCHANGED <<envVars, waitVars, mainVars>>

\* index.js lines 51, 61, 38-39: pushChanges has returned.
NextBatch ==
    /\ pc \in {"m51", "m61"}
    /\ pc' = "m39"
    /\ calls' = <<>>
    /\ ResetPush
    /\ UNCHANGED <<ret, files, envVars, batchVars, waitVars, mainVars>>

\* index.js line 66: nothing handles a rejection of main().
Unhandled ==
    /\ pc = "rejected"
    /\ pc' = "crashed"
    /\ UNCHANGED <<ret, calls, files, envVars, pushVars, batchVars, waitVars, mainVars>>

MainStep ==
    \/ BranchSelection
    \/ SelectBranch
    \/ checkoutBranch
    \/ ReadStatus
    \/ RetryTimer
    \/ ThresholdReached
    \/ CallPush
    \/ NextBatch
    \/ Unhandled

(***************************************************************************)
(* Spec: the program, from the start of main.                              *)
(***************************************************************************)
Init ==
    /\ pc = "m19"
    /\ ret = "main"
    /\ calls = <<>>
    /\ origin \in BOOLEAN
    /\ curBranch \in Branches
    /\ IdlePush
    /\ files = <<>>
    /\ IdleBatch
    /\ IdleWait
    /\ IdleMain

Next == MainStep \/ BatchStep \/ PushStep \/ WaitStep

Spec == Init /\ [][Next]_vars

(***************************************************************************)
(* The claims.                                                             *)
(***************************************************************************)
\* What the claims say about the calls of the running function.
Ops(op) == {k \in 1..Len(calls) : calls[k].op = op}
Failed(k) == ~calls[k].ok
Finished == pc \in {"exit", "rejected"}

\* The call of pushChanges ended with a succeed or a fail of the spinner that
\* was last started.
Reported ==
    IF setupSpinner.state # "none"
    THEN setupSpinner.state \in {"succeed", "fail"}
    ELSE spinner.state \in {"succeed", "fail"}

\* C1 (SpecPush): pushChanges never propagates an error to its caller: whatever
\* the outcomes of its external calls, no rejection escapes it, and it returns
\* only after a spinner succeed or fail.
C1_NeverPropagates ==
    /\ pc # "rejected"
    /\ pc = "exit" => Reported

\* The paths of the calls of one kind, in call order.
RECURSIVE PathsOf(_, _)
PathsOf(log, op) ==
    IF log = <<>> THEN <<>>
    ELSE IF Head(log).op = op THEN <<Head(log).arg>> \o PathsOf(Tail(log), op)
    ELSE PathsOf(Tail(log), op)

\* Every commit attempt comes right after a stage call on the same path.
CommitsFollowStage ==
    \A k \in Ops("commit") :
        k > 1 /\ calls[k - 1].op = "add" /\ calls[k - 1].arg = calls[k].arg

\* C2 as stated (SpecBatch): a call with N files and limit L makes exactly
\* min(N, L) commit attempts, for the first min(N, L) files in input order, each
\* right after a stage call on the same path, and stages nothing else.
C2_ExactlyMinCommits ==
    (pc = "exit" /\ files # NullList) =>
        LET n == Min(Len(files), limit) IN
        /\ PathsOf(calls, "commit") = SubSeq(files, 1, n)
        /\ PathsOf(calls, "add") = SubSeq(files, 1, n)
        /\ CommitsFollowStage

\* C2 as amended (SpecBatch): for a limit L >= 1 the call makes exactly
\* min(N, L) stage attempts, for the first min(N, L) files in input order (for
\* L = 0: for all N files); a commit attempt is made exactly for the files
\* whose stage call succeeded, right after that stage call, so there are at most
\* min(N, L) of them; nothing else is staged or committed and no file twice.
C2_StagePrefixCommitStaged ==
    (pc = "exit" /\ files # NullList /\ limit >= 0) =>
        LET n == IF limit = 0 THEN Len(files) ELSE Min(Len(files), limit) IN
        /\ PathsOf(calls, "add") = SubSeq(files, 1, n)
        /\ Injective(PathsOf(calls, "add"))
        /\ CommitsFollowStage
        /\ \A k \in Ops("commit") : calls[k - 1].ok
        /\ \A k \in Ops("add") :
              calls[k].ok => k < Len(calls) /\ calls[k + 1].op = "commit"
        /\ Ops("add") \cup Ops("commit") = 1..Len(calls)

\* C2's case: three files, limit 2, the first staged and committed, the second
\* not staged.
C2_Witness ==
    /\ pc = "exit"
    /\ Len(files) = 3
    /\ limit = 2
    /\ Len(calls) = 3
    /\ calls[2].op = "commit"
    /\ Failed(3)

Rejected(k) == Failed(k) /\ Includes(calls[k].msg, PatRejected)
PullsFirstUnrelated ==
    \A j \in Ops("pullRebase") : \E k \in Ops("pullUnrelated") : k < j

\* The reconciliation (the pull with unrelated histories, or the push after
\* it) has failed.
ReconcileFailed ==
    \E k \in 1..Len(calls) : calls[k].at \in {"p121", "p122"} /\ Failed(k)
Fatal == pc = "exit" /\ setupSpinner.state = "fail"

\* C3 as stated (SpecPush): whenever a push of the call, the plain one or one
\* with -u, fails with a text containing "rejected", a pull with unrelated
\* histories is attempted before any pull --rebase, and a failed reconciliation
\* is followed by a pull --rebase before Fatal is reported.
C3_UnrelatedBeforeRebase ==
    (\E k \in Ops("push") \cup Ops("pushU") : Rejected(k)) =>
        /\ PullsFirstUnrelated
        /\ (ReconcileFailed /\ Fatal) => Ops("pullRebase") # {}

\* C3 as amended (SpecPush): whenever a push with -u fails with a text containing
\* "rejected", every pull --rebase of the call comes after a pull with unrelated
\* histories; when it is the push of SyncWithRemote that failed so, that pull is
\* the next call; and a failed reconciliation is followed by a pull --rebase
\* before Fatal is reported.  (The plain push is excepted: when it fails with
\* "rejected" and is not no-upstream, the call goes straight to pull --rebase.)
C3_UnrelatedBeforeRebaseAfterU ==
    /\ (\E k \in Ops("pushU") : Rejected(k)) => PullsFirstUnrelated
    /\ \A k \in Ops("pushU") :
          (calls[k].at = "p109" /\ Rejected(k)) =>
              IF k < Len(calls) THEN calls[k + 1].op = "pullUnrelated" ELSE pc = "p121"
    /\ (ReconcileFailed /\ Fatal) => Ops("pullRebase") # {}
    /\ \A k \in 1..Len(calls) :
          (calls[k].at \in {"p121", "p122"} /\ Failed(k)) =>
              IF k < Len(calls) THEN calls[k + 1].op = "pullRebase" ELSE pc = "p128"

\* C3's case: the push of SyncWithRemote was rejected, the pull with unrelated
\* histories failed, the pull --rebase failed too, and Fatal was reported.
C3_Witness ==
    /\ Fatal
    /\ \E k \in Ops("pushU") :
          /\ calls[k].at = "p109"
          /\ Rejected(k)
          /\ Len(calls) = k + 2
          /\ calls[k + 1].op = "pullUnrelated" /\ Failed(k + 1)
          /\ calls[k + 2].op = "pullRebase" /\ Failed(k + 2)

\* The initial push failed as no-upstream and getRemotes returned.
NoUpstreamCase ==
    /\ Len(calls) >= 2
    /\ calls[1].op = "push" /\ Failed(1) /\ IsNoUpstream(calls[1].msg)
    /\ calls[2].op = "getRemotes" /\ calls[2].ok

\* ... with no remote named origin, and the operator gave a URL.
UrlGivenCase ==
    /\ NoUpstreamCase
    /\ ~hasOrigin
    /\ Len(calls) >= 3
    /\ calls[3].op = "prompt" /\ calls[3].ok /\ calls[3].arg # ""

\* C7 as stated (SpecPush): no upstream, no origin, the operator gives a URL:
\* the call makes exactly one add-remote call, and after it exactly one push
\* with -u.
C7_OneAddRemoteOnePushU ==
    (Finished /\ UrlGivenCase) =>
        /\ Cardinality(Ops("addRemote")) = 1
        /\ Cardinality(Ops("pushU")) = 1
        /\ \A a \in Ops("addRemote") : \A u \in Ops("pushU") : a < u

\* C7 as amended (SpecPush): in that scenario the call makes exactly one
\* add-remote call, directly followed by the branch-name read and, when that
\* succeeds, by a push with -u; every push with -u comes after the add-remote
\* call; there is exactly one push with -u when that first one succeeds or fails
\* with a text outside the diverged patterns, and never more than three.
C7_OneAddRemoteThenSync ==
    (Finished /\ UrlGivenCase) =>
        /\ Ops("addRemote") = {4}
        /\ Len(calls) >= 5
        /\ calls[5].op = "revparse"
        /\ calls[5].ok => (Len(calls) >= 6 /\ calls[6].op = "pushU")
        /\ \A u \in Ops("pushU") : u > 4
        /\ Cardinality(Ops("pushU")) <= 3
        /\ (calls[5].ok /\ (calls[6].ok \/ ~IsDiverged(calls[6].msg))) =>
              Cardinality(Ops("pushU")) = 1

\* C7's case: the URL was given, the remote added, and the first push with -u
\* was rejected, so that the call pushed with -u a second time.
C7_Witness ==
    /\ pc = "exit"
    /\ UrlGivenCase
    /\ Len(calls) = 8
    /\ calls[4].op = "addRemote" /\ calls[4].ok
    /\ calls[6].op = "pushU" /\ Rejected(6)
    /\ calls[8].op = "pushU" /\ calls[8].ok
    /\ setupSpinner.state = "succeed"

\* ... with a remote named origin.
OriginCase == NoUpstreamCase /\ hasOrigin
LinkFailed(k) == calls[k].at \in {"p70", "p71"} /\ Failed(k)

\* C8 (SpecPush): no upstream, origin exists: the call never prompts and never
\* adds a remote; after getRemotes it reads the branch name and pushes with -u
\* to that branch, and when this link attempt fails the next call is the
\* branch-name read of SyncWithRemote.
C8_NoPromptWithOrigin ==
    OriginCase =>
        /\ Ops("prompt") = {} /\ Ops("addRemote") = {}
        /\ pc \notin {"p82", "p93"}
        /\ IF Len(calls) = 2 THEN pc = "p70" ELSE calls[3].at = "p70"
        /\ (Len(calls) >= 3 /\ calls[3].ok) =>
              IF Len(calls) = 3 THEN pc = "p71"
              ELSE calls[4].at = "p71" /\ calls[4].op = "pushU" /\ calls[4].arg = curBranch
        /\ \A k \in 1..Len(calls) :
              LinkFailed(k) =>
                  IF k = Len(calls) THEN pc = "p107"
                  ELSE calls[k + 1].at = "p107" /\ calls[k + 1].op = "revparse"

\* C8's case: origin exists, the push -u of the link attempt failed, and the
\* sync phase pushed with -u again, with no prompt.
C8_Witness ==
    /\ pc = "exit"
    /\ OriginCase
    /\ Len(calls) = 6
    /\ calls[4].at = "p71" /\ Failed(4)
    /\ calls[6].at = "p109" /\ calls[6].ok

\* C9 (SpecBatch): a failure on one file does not abort the batch: the call
\* never rejects, and when it returns a stage attempt has been made for every
\* selected file, in order, whatever failed before it.
C9_FailuresDoNotAbort ==
    /\ pc # "rejected"
    /\ (pc = "exit" /\ files # NullList /\ files # <<>>) =>
          /\ PathsOf(calls, "add") = filesToProcess
          /\ Len(fileSpinner) = Len(filesToProcess)

\* C9's case: the stage call of the first file failed, the commit of the
\* second failed, and the third file was still staged.
C9_Witness ==
    /\ pc = "exit"
    /\ Len(filesToProcess) = 3
    /\ Len(calls) >= 4
    /\ calls[1].op = "add" /\ Failed(1)
    /\ calls[3].op = "commit" /\ Failed(3)
    /\ calls[4].op = "add" /\ calls[4].arg = filesToProcess[3]

\* C10 (SpecBatch): with an empty or absent list the call stages and commits
\* nothing; it prints "No files to process." and returns.
C10_EmptyIsNoOp ==
    (files = NullList \/ files = <<>>) =>
        /\ calls = <<>>
        /\ pc \in {"f28", "exit"}
        /\ pc = "exit" => (console = "No files to process." /\ filesToProcess = <<>>)

\* C10's case: the call with an absent list has returned.
C10_Witness ==
    /\ pc = "exit"
    /\ files = NullList
    /\ console = "No files to process."

\* The changed-file count of a poll, as the claim counts it.
Changed(list) == IF list = NullList THEN 0 ELSE Len(list)

\* C6 (SpecWait): the promise resolves only at a poll whose count is at least
\* the threshold, with that poll's own list, every poll before it having stayed
\* below the threshold; and until then the timer stays set.
C6_ResolvesAtThreshold ==
    IF resolved
    THEN /\ pc = "exit"
         /\ resolvedAt = Len(pollLog)
         /\ resolvedAt >= 1
         /\ result = pollLog[resolvedAt]
         /\ Changed(result) >= threshold
         /\ \A j \in 1..(resolvedAt - 1) : Changed(pollLog[j]) < threshold
         /\ ~interval
    ELSE /\ pc = "w164"
         /\ interval
         /\ \A j \in 1..Len(pollLog) : Changed(pollLog[j]) < threshold

\* C6's case: counts 2, 2, 5 at threshold 5; resolved at the third poll with
\* the third poll's list, which is not the list of the polls before it.
C6_Witness ==
    /\ threshold = 5
    /\ resolved
    /\ Len(pollLog) = 3
    /\ Len(pollLog[1]) = 2 /\ Len(pollLog[2]) = 2 /\ Len(pollLog[3]) = 5
    /\ pollLog[1][1] # pollLog[3][1]
    /\ result = pollLog[3]

\* The push and commit calls in flight.
PushOrCommitInFlight ==
    IF pc \in {"a42", "p53", "p71", "p109", "p122", "p129", "p147"} THEN 1 ELSE 0

\* C4 (Spec): there is never more than one poll callback outstanding, and never
\* more than one push or commit in flight.
C4_NoOverlappingPolls ==
    /\ pending + stale <= 1
    /\ PushOrCommitInFlight <= 1

\* C5 (Spec): no outcome of the external calls of pushChanges ends the
\* process: the call comes back to the loop, and never rejects main().
C5_PushNeverCrashes ==
    ~(pc \in {"rejected", "crashed"} /\ ret \in {"m51", "m61"})

\* The texts of the patterns, as the claims quote them.
QuotedNoDestinationLower == <<"no", "configured", "push", "destination">>
QuotedNoDestination == <<"No", "configured", "push", "destination">>
QuotedNoUpstream == <<"no", "upstream", "branch">>
QuotedAhead == {<<"fetch", "first">>, <<"rejected">>, <<"divergent", "branches">>}
QuotedDiverged == QuotedAhead \cup {<<"non-fast-forward">>}
HasOneOf(message, patterns) == \E q \in patterns : Includes(message, q)

\* Where a failed initial push leads, for texts that count as no-upstream
\* (noUpstream) or as remote-ahead (QuotedAhead), in this order.
ClassifiedBy(noUpstream) ==
    (Len(calls) >= 1 /\ calls[1].at = "p53" /\ Failed(1)) =>
        IF HasOneOf(calls[1].msg, noUpstream)
        THEN IF Len(calls) = 1 THEN pc = "p61" ELSE calls[2].op = "getRemotes"
        ELSE IF HasOneOf(calls[1].msg, QuotedAhead)
        THEN IF Len(calls) = 1 THEN pc = "p145" ELSE calls[2].at = "p145"
        ELSE /\ Len(calls) = 1
             /\ pc = "exit"
             /\ spinner = Spin("fail", "Failed to push changes")
             /\ setupSpinner = NoSpinner

\* C14 as stated (SpecPush): a failed initial push whose text contains "no
\* configured push destination" or "no upstream branch" leads to NoUpstream;
\* otherwise one containing "fetch first", "rejected" or "divergent branches"
\* leads to RemoteAheadSimple; any other ends Fatal, reported, with no further
\* call.
C14_ClassifiedAsQuoted ==
    ClassifiedBy({QuotedNoDestinationLower, QuotedNoUpstream})

\* C14 as amended (SpecPush): the same, with the first text matched as the code
\* spells it, "No configured push destination" with a capital N (the match is
\* case-sensitive: the lower-case text is any other text, and ends Fatal).
C14_ClassifiedCaseSensitive ==
    ClassifiedBy({QuotedNoDestination, QuotedNoUpstream})

\* C14's case: a text with both "no upstream branch" and "rejected" was taken
\* as no-upstream, and the remotes were queried.
C14_Witness ==
    /\ Len(calls) = 2
    /\ calls[1].msg = MsgNoUpstreamRejected
    /\ calls[2].op = "getRemotes"

\* The sync phase has been entered: its first call is in flight or was made.
SyncEntered == pc = "p107" \/ \E k \in 1..Len(calls) : calls[k].at = "p107"

\* C15 (SpecPush): the sync phase (push origin <branch> -u after the remote
\* setup) is entered only where a remote named origin exists, found by the
\* query or added in this call; after a URL whose addRemote call failed, only
\* if the failure was that origin already exists.
C15_SyncOnlyWithOrigin ==
    SyncEntered =>
        /\ origin
        /\ \A k \in Ops("addRemote") : Failed(k) => calls[k].msg = MsgRemoteExists

\* The operator left the prompt for a URL empty (call k).
EmptyAnswer(k) == calls[k].op = "prompt" /\ calls[k].ok /\ calls[k].arg = ""

\* C16 (SpecPush): with no origin remote and an empty answer to the prompt,
\* pushChanges returns at once: the prompt is its last call (no addRemote, no
\* revparse, no push and no pull after it) and the sync phase is not started.
C16_EmptyAnswerEndsCall ==
    \A k \in 1..Len(calls) : EmptyAnswer(k) =>
        /\ k = Len(calls)
        /\ pc = "exit"
        /\ ~hasOrigin
        /\ setupSpinner = NoSpinner
        /\ Ops("addRemote") = {}

\* C16's case: push failed, no origin was found, the answer was empty.
C16_Witness ==
    /\ Len(calls) = 3
    /\ calls[2].op = "getRemotes" /\ calls[2].ok
    /\ EmptyAnswer(3)
    /\ pc = "exit"

\* The call after call k is the one made at label at; while call k is the
\* last one, that call is in flight.
Then(k, at) == IF k = Len(calls) THEN pc = at ELSE calls[k + 1].at = at

\* Call k ended pushChanges with the sync phase reported as failed.
EndsFatal(k) == k = Len(calls) /\ pc = "exit" /\ setupSpinner.state = "fail"

\* Call k ended pushChanges with the sync phase reported as done.
EndsDone(k) == k = Len(calls) /\ pc = "exit" /\ setupSpinner.state = "succeed"

Pulls == Ops("pullUnrelated") \cup Ops("pullRebase")

\* C17 (SpecPush): after a failed push of the sync phase, a text with none of
\* "fetch first", "rejected", "divergent branches", "non-fast-forward" ends
\* Fatal with no pull; a text with one of them starts Reconcile (pull with
\* unrelated histories allowed, then push -u); a failure of either of its calls
\* starts RebaseReconcile (pull --rebase, then push -u); a failure of either of
\* those ends Fatal with no further call. Each of the two is entered at most
\* once.
C17_EscalationInOrder ==
    /\ \A k \in 1..Len(calls) :
        /\ (calls[k].at = "p109" /\ Failed(k)) =>
               IF HasOneOf(calls[k].msg, QuotedDiverged)
               THEN Then(k, "p121")
               ELSE EndsFatal(k) /\ Pulls = {}
        /\ calls[k].at = "p121" =>
               /\ calls[k].op = "pullUnrelated"
               /\ IF Failed(k) THEN Then(k, "p128") ELSE Then(k, "p122")
        /\ calls[k].at = "p122" =>
               /\ calls[k].op = "pushU"
               /\ IF Failed(k) THEN Then(k, "p128") ELSE EndsDone(k)
        /\ calls[k].at = "p128" =>
               /\ calls[k].op = "pullRebase"
               /\ IF Failed(k) THEN EndsFatal(k) ELSE Then(k, "p129")
        /\ calls[k].at = "p129" =>
               /\ calls[k].op = "pushU"
               /\ IF Failed(k) THEN EndsFatal(k) ELSE EndsDone(k)
    /\ Cardinality(Ops("pullUnrelated")) <= 1
    /\ Cardinality(Ops("pullRebase")) <= 1
    /\ Cardinality({k \in 1..Len(calls) : calls[k].at = "p122"}) <= 1
    /\ Cardinality({k \in 1..Len(calls) : calls[k].at = "p129"}) <= 1

\* C17's case: the whole escalation. The sync push failed as non-fast-forward,
\* the reconciling pull went through and its push failed, the rebase went
\* through and its push failed: Fatal.
C17_Witness ==
    /\ \E k \in 1..Len(calls) :
        /\ calls[k].at = "p109" /\ calls[k].msg = MsgNonFastForward
        /\ Len(calls) = k + 4
        /\ calls[k + 1].at = "p121" /\ calls[k + 1].ok
        /\ calls[k + 2].at = "p122" /\ Failed(k + 2)
        /\ calls[k + 3].at = "p128" /\ calls[k + 3].ok
        /\ calls[k + 4].at = "p129" /\ Failed(k + 4)
    /\ Fatal

\* The initial push failed with a text of the remote-ahead kind (and not of
\* the no-upstream kind, which is tested first).
RemoteAheadCase ==
    /\ Len(calls) >= 1
    /\ calls[1].at = "p53" /\ Failed(1)
    /\ ~HasOneOf(calls[1].msg, {QuotedNoDestination, QuotedNoUpstream})
    /\ HasOneOf(calls[1].msg, QuotedAhead)

\* Call k ended pushChanges with the advice to pull manually.
EndsAdvising(k) ==
    /\ k = Len(calls)
    /\ pc = "exit"
    /\ spinner = Spin("fail", "Failed to auto-sync. Please pull manually to resolve conflicts.")

\* C18 (SpecPush): in the remote-ahead case the calls are, in this order, the
\* read of the branch name, pull origin <branch> --rebase and a plain push;
\* the first of them to fail ends the call with the report that advises a
\* manual pull, and there is no pull with unrelated histories, no second
\* rebase, no push with -u and no further push.
C18_AheadPullsOncePushesOnce ==
    RemoteAheadCase =>
        /\ Len(calls) <= 4
        /\ Then(1, "p145")
        /\ Len(calls) >= 2 =>
               /\ calls[2].op = "revparse"
               /\ IF Failed(2) THEN EndsAdvising(2) ELSE Then(2, "p146")
        /\ Len(calls) >= 3 =>
               /\ calls[3].op = "pullRebase" /\ calls[3].arg = curBranch
               /\ IF Failed(3) THEN EndsAdvising(3) ELSE Then(3, "p147")
        /\ Len(calls) = 4 =>
               /\ calls[4].op = "push"
               /\ pc = "exit"
               /\ IF Failed(4) THEN EndsAdvising(4) ELSE spinner.state = "succeed"
        /\ Ops("pullUnrelated") = {} /\ Ops("pushU") = {}
        /\ setupSpinner = NoSpinner

\* C18's case: the rebase went through and the push after it failed again.
C18_Witness ==
    /\ RemoteAheadCase
    /\ Len(calls) = 4
    /\ calls[3].ok
    /\ Failed(4)
    /\ EndsAdvising(4)

Pushes == Ops("push") \cup Ops("pushU")

\* The bounds on one call of pushChanges: at most five push attempts
\* (the plain one first, then at most four with -u; or two plain ones and none
\* with -u when the remote is ahead), at most two pulls, one prompt and one
\* addRemote; no call site is reached twice, so there are at most ten calls
\* (lines 53, 61, 70, 71, 107, 109 or 117, 121, 122, 128, 129); every pull
\* comes after a failed push of the same call.
AttemptsBounded ==
    /\ Len(calls) <= 10
    /\ Len(calls) >= 1 => calls[1].op = "push"
    /\ Cardinality(Pushes) <= 5
    /\ Cardinality(Ops("pushU")) <= 4
    /\ Cardinality(Ops("push")) <= 2
    /\ Cardinality(Ops("push")) = 2 => Ops("pushU") = {} /\ Cardinality(Pulls) = 1
    /\ Cardinality(Pulls) <= 2
    /\ Cardinality(Ops("prompt")) <= 1
    /\ Cardinality(Ops("addRemote")) <= 1
    /\ \A j, k \in 1..Len(calls) : j < k => calls[j].at # calls[k].at
    /\ \A k \in 1..Len(calls) : calls[k].at # pc
    /\ \A k \in Pulls : \E j \in Pushes : j < k /\ Failed(j)

\* C19 (SpecPushFair): the bounds of AttemptsBounded hold throughout, and a
\* call of pushChanges whose external calls all return comes to its end.
C19_BoundedAndTerminates == []AttemptsBounded /\ <>Finished

\* C19's case: a call that used all five push attempts and both pulls.
C19_Witness ==
    /\ pc = "exit"
    /\ Cardinality(Pushes) = 5
    /\ Cardinality(Pulls) = 2

\* C11 (Spec): a failed status read (null) is never fatal and starts no
\* commit and no push. In the loop it leads to the retry timer and back to the
\* status read, with no call made in between; in waitForThreshold it counts as
\* no changed file, so it never resolves the promise and the timer stays set.
C11_FailedReadOnlyRetries ==
    /\ files = NullList => pc \in {"m44", "m39"} /\ calls = <<>>
    /\ pc = "m44" => files = NullList
    /\ \A k \in 1..Len(pollLog) : pollLog[k] = NullList => resolvedAt # k
    /\ resolved => result # NullList
    /\ pc = "w164" => interval /\ ~resolved

\* C11's case: a status read failed, the retry timer has fired and the loop is
\* at its status read again.
C11_Witness == pc = "m39" /\ files = NullList

AllOk == \A k \in 1..Len(calls) : calls[k].ok

\* processFiles has returned to the loop, pushChanges is not yet called.
BatchReturned == pc \in {"m50", "m60"}

\* pushChanges has returned to the loop.
PushReturned == pc \in {"m51", "m61"}

\* C12 (Spec): a cycle with 7 changed files in which every call succeeds makes
\* exactly 5 commits, of the first 5 files, leaves 2 of the 7 files without a
\* commit, then calls pushChanges, which makes exactly one push attempt.
C12_FiveCommitsOnePush ==
    /\ [](/\ (BatchReturned /\ Len(files) = 7 /\ AllOk) =>
               /\ PathsOf(calls, "commit") = SubSeq(files, 1, 5)
               /\ Cardinality(Ops("commit")) = 5
               /\ Cardinality({files[i] : i \in 1..7}
                                 \ {calls[k].arg : k \in Ops("commit")}) = 2
               /\ Pushes = {}
          /\ (PushReturned /\ AllOk) =>
               /\ Len(calls) = 1
               /\ calls[1].op = "push"
               /\ spinner.state = "succeed")
    /\ [][(BatchReturned /\ pc' # pc) => (pc' = "p53" /\ calls' = <<>>)]_vars

\* C12's case: 7 files were read, and the batch came back with every call
\* having succeeded.
C12_Witness == pc = "m50" /\ Len(files) = 7 /\ AllOk /\ Len(calls) = 10

Startup == {"m19", "m21", "k193"}

\* C13 (Spec): the branch selection runs once, before the loop. A checkout is
\* issued only for a choice other than the current branch; when it fails the
\* current branch stays, when the listing fails nothing is asked and nothing
\* checked out; in each case the loop's status read follows.
C13_BranchSelectionOnce ==
    /\ [](/\ pc = "k193" =>
               /\ branches.current = curBranch
               /\ branchName # branches.current
          /\ \A k \in Ops("checkout") :
               /\ k = 3 /\ Len(calls) = 3 /\ pc = "m39"
               /\ calls[2].at = "m21" /\ calls[2].arg = calls[3].arg
               /\ calls[3].arg # branches.current
               /\ curBranch = IF calls[3].ok THEN calls[3].arg ELSE branches.current
          /\ \A k \in 1..Len(calls) :
               /\ (calls[k].at = "m19" /\ Failed(k)) =>
                      Len(calls) = 1 /\ pc = "m39"
               /\ (calls[k].at = "m21" /\ calls[k].ok
                       /\ calls[k].arg = branches.current) =>
                      Len(calls) = 2 /\ pc = "m39" /\ curBranch = branches.current)
    /\ [][/\ pc \notin Startup => pc' \notin Startup
          /\ curBranch' # curBranch => pc = "k193" /\ curBranch' = branchName]_vars

\* C13's case: the checkout of the chosen branch failed; the loop is at its
\* first status read, on the branch that was current.
C13_Witness ==
    /\ pc = "m39"
    /\ Len(calls) = 3
    /\ calls[3].op = "checkout" /\ Failed(3)
    /\ curBranch = branches.current

\* C20 (Spec): in the loop, processFiles is entered only from the status read
\* or from waitForThreshold, with a list of at least 5 files; when it returns,
\* whatever its commits did, pushChanges is called; pushChanges is called from
\* nowhere else; and when pushChanges returns, the next status read follows.
C20_BatchThenPush ==
    /\ [](pc = "f28" => files # NullList /\ Len(files) >= 5)
    /\ [][/\ (pc' = "f28" /\ pc # "f28") => pc \in {"m39", "m59"}
          /\ (pc' \in {"m50", "m60"} /\ pc' # pc) => pc \in {"f28", "a40", "a42"}
          /\ (BatchReturned /\ pc' # pc) => pc' = "p53"
          /\ (pc' = "p53" /\ pc # "p53") => BatchReturned
          /\ (PushReturned /\ pc' # pc) => pc' = "m39"]_vars

\* C20's case: a batch of 5 files in which no file could be staged, so that
\* no commit was made, has returned; pushChanges is the next call.
C20_Witness ==
    /\ BatchReturned
    /\ Len(calls) = 5
    /\ \A k \in 1..5 : calls[k].op = "add" /\ Failed(k)
=============================================================================
